---- MODULE Spec2Model ----
(***************************************************************************)
(* Model of the APO two-stage meta-prompting pipeline:                     *)
(*   util.py   _ollama_generate, call_llm, build_meta_instruction          *)
(*   agents.py generate_optimized_prompt, execute_optimized_prompt,        *)
(*             apo_workflow                                                *)
(*   cli.py    main            app.py  the "Run" button handler            *)
(*                                                                         *)
(* A Python str is a sequence of one-character strings.  A provider        *)
(* response is a record saying how far the HTTP exchange got and what the  *)
(* body looked like; the code's try/except blocks are modelled by the      *)
(* exception class each response makes the code raise and the except       *)
(* clause that class selects.                                              *)
(***************************************************************************)
EXTENDS Integers, Sequences, FiniteSets, TLC

VARIABLES
    HIGH_SPEED_MODE,   \* util.py:27, fixed at import time
    entry,             \* who started the current invocation: "api", "cli", "app"
    wf_pc,             \* position of apo_workflow
    abstract_task,     \* apo_workflow's argument
    optimized_prompt,  \* agents.py:29
    chosen_role,       \* agents.py:38
    cleaned_prompt,    \* agents.py:39
    optimized_output,  \* agents.py:42
    result,            \* the dict apo_workflow returns (agents.py:61-68)
    error,             \* the message of the ConnectionError apo_workflow raised
    call_pc,           \* position of the running call_llm
    prompt_to_send,    \* call_llm's first argument
    max_tokens,        \* util.py:77
    attempt,           \* the loop variable of util.py:95
    retval,            \* the value call_llm returned
    escaped,           \* the exception class that left call_llm, "none" if none
    last_response,     \* history: the provider response this call handled last
    trace,             \* history: provider requests, their outcomes and sleeps of this call
    sleeps,            \* history: the seconds passed to asyncio.sleep in this call
    wf_trace,          \* history: the provider requests and responses of this workflow
    prev_raised,       \* history: this workflow has just started, after one that raised, and
                       \* no provider has answered it yet
    parked             \* the frames of the workflows suspended at an await while another runs

vars == <<HIGH_SPEED_MODE, entry, wf_pc, abstract_task, optimized_prompt,
          chosen_role, cleaned_prompt, optimized_output, result, error, call_pc, prompt_to_send, max_tokens,
          attempt, retval, escaped, last_response, trace, sleeps, wf_trace,
          prev_raised, parked>>

----------------------------------------------------------------------------
(* Bounds of the model *)

\* Provider texts in the pipeline are concatenations of at most this many Tokens.
MaxTokens == 2

\* Texts handed to the output parser alone are concatenations of at most this many Tokens.
MaxParseTokens == 5

\* Stage-1 prompts handed to the role parser alone are concatenations of at most
\* this many RoleTokens.
MaxRoleTokens == 4

\* At most this many workflows run on one event loop at a time.
NumWorkflows == 2

----------------------------------------------------------------------------
(* Python str operations *)

\* str.strip() without arguments removes these from both ends
IsSpace(c) == c \in {" ", "\n", "\t", "\r"}

RECURSIVE LStrip(_)
LStrip(s) ==
    IF s # <<>> /\ IsSpace(Head(s)) THEN LStrip(Tail(s)) ELSE s

RECURSIVE RStrip(_)
RStrip(s) ==
    IF s # <<>> /\ IsSpace(s[Len(s)]) THEN RStrip(SubSeq(s, 1, Len(s) - 1)) ELSE s

\* str.strip()
Strip(s) == RStrip(LStrip(s))

\* str.startswith(p)
StartsWith(s, p) == Len(s) >= Len(p) /\ SubSeq(s, 1, Len(p)) = p

\* str.splitlines()[0] of a non-empty str
RECURSIVE FirstLine(_)
FirstLine(s) ==
    IF s = <<>> \/ Head(s) \in {"\n", "\r"} THEN <<>>
    ELSE <<Head(s)>> \o FirstLine(Tail(s))

\* bool(s) of a str
Truthy(s) == Len(s) > 0

RECURSIVE Concat(_)
Concat(ss) == IF ss = <<>> THEN <<>> ELSE Head(ss) \o Concat(Tail(ss))

ErrorMarker ==
    <<"E","r","r","o","r",":">>
OllamaEmptyMsg ==
    <<"E","r","r","o","r",":"," ","O","l","l","a","m","a"," ","s","e","r","v",
      "e","r"," ","r","e","t","u","r","n","e","d"," ","a","n"," ","e","m","p",
      "t","y"," ","r","e","s","p","o","n","s","e",".">>
OllamaConnectPrefix ==
    <<"E","r","r","o","r",":"," ","F","a","i","l","e","d"," ","t","o"," ","c",
      "o","n","n","e","c","t"," ","t","o"," ","O","l","l","a","m","a"," ","s",
      "e","r","v","e","r","."," ","D","e","t","a","i","l","s",":"," ">>
UnknownRequestError ==
    <<"U","n","k","n","o","w","n"," ","R","e","q","u","e","s","t"," ","E","r",
      "r","o","r",".">>
OllamaNotJsonMsg ==
    <<"E","r","r","o","r",":"," ","O","l","l","a","m","a"," ","s","e","r","v",
      "e","r"," ","r","e","t","u","r","n","e","d"," ","a","n"," ","i","n","v",
      "a","l","i","d"," ","r","e","s","p","o","n","s","e"," ","f","o","r","m",
      "a","t"," ","(","n","o","t"," ","J","S","O","N",")",".">>
OllamaUnexpectedPrefix ==
    <<"E","r","r","o","r",":"," ","A","n"," ","u","n","e","x","p","e","c","t",
      "e","d"," ","e","r","r","o","r"," ","o","c","c","u","r","r","e","d"," ",
      "i","n"," ","O","l","l","a","m","a"," ","c","a","l","l",":"," ">>

----------------------------------------------------------------------------
(* Inputs: texts a provider can send back, texts of exceptions, tasks *)

\* The backquote character (it cannot be written inside a TLA+ string)
Backtick == "BACKTICK"

Fence == <<Backtick, Backtick, Backtick>>

\* The pieces provider texts are built from
Tokens == {ErrorMarker, Fence, <<"\n">>, <<" ">>, <<"a">>}

TextsOf(n) == UNION {{Concat(ts) : ts \in [1..k -> Tokens]} : k \in 0..n}

\* The content a provider puts in its completion field
Texts == TextsOf(MaxTokens)

\* str(e) of a raised exception
ExcTexts == {<<>>, <<"x">>, <<"x","\n","y">>}

\* The tasks a caller passes or types
Tasks == {<<>>, <<" ">>, <<"a">>, <<" ","a">>}

----------------------------------------------------------------------------
(* Exception classes and the except clauses that catch them *)

Bases(c) ==
    CASE c = "ConnectionError"         -> {"RequestException"}
      [] c = "Timeout"                 -> {"RequestException"}
      [] c = "HTTPError"               -> {"RequestException"}
      [] c = "RequestsJSONDecodeError" -> {"RequestException", "JSONDecodeError"}
      [] c = "RequestException"        -> {"OSError"}
      [] c = "OSError"                 -> {"Exception"}
      [] c = "JSONDecodeError"         -> {"ValueError"}
      [] c = "ValueError"              -> {"Exception"}
      [] c = "KeyError"                -> {"LookupError"}
      [] c = "IndexError"              -> {"LookupError"}
      [] c = "LookupError"             -> {"Exception"}
      [] c = "AttributeError"          -> {"Exception"}
      [] c = "TypeError"               -> {"Exception"}
      [] OTHER                         -> {}

RECURSIVE IsInstance(_, _)
IsInstance(c, base) ==
    c = base \/ \E b \in Bases(c) : IsInstance(b, base)

----------------------------------------------------------------------------
(* Provider responses *)

\* phase: "post_raises"  requests.post raised exc (no response at all)
\*        "status_bad"   a response with a 4xx/5xx status
\*        "body"         a 2xx response whose body has the given shape
\* exc:   the class requests.post raised, or the class response.json() raises
\*        for an undecodable body (requests raises its own JSONDecodeError,
\*        a RequestException, since 2.27 and json's ValueError before)
\* etext: str(e) of the exception the response leads to
Resp(phase, exc, shape, content, etext) ==
    [phase |-> phase, exc |-> exc, shape |-> shape, content |-> content,
     etext |-> etext]

NoResponse == Resp("none", "none", "none", <<>>, <<>>)

TransportFailures ==
    {Resp("post_raises", x, "none", <<>>, t) :
        x \in {"ConnectionError", "Timeout"}, t \in ExcTexts}
    \cup {Resp("status_bad", "none", "none", <<>>, t) : t \in ExcTexts}
    \cup {Resp("body", x, "undecodable", <<>>, t) :
            x \in {"RequestsJSONDecodeError", "JSONDecodeError"}, t \in ExcTexts}

\* Shapes of a decoded Groq body that carry no usable text
GroqBadShapes ==
    {"not_object", "no_choices", "choices_empty", "choices_object",
     "choices_null", "choice_not_object", "no_message", "message_not_object",
     "no_content", "content_falsy", "content_not_string"}

GroqResponses ==
    TransportFailures
    \cup {Resp("body", "none", s, <<>>, <<"x">>) : s \in GroqBadShapes}
    \cup {Resp("body", "none", "content", c, <<>>) : c \in Texts}

\* Shapes of a decoded Ollama body that carry no usable text
OllamaBadShapes == {"not_object", "no_response", "response_not_string"}

OllamaResponses ==
    TransportFailures
    \cup {Resp("body", "none", s, <<>>, t) : s \in OllamaBadShapes, t \in ExcTexts}
    \cup {Resp("body", "none", "response", c, <<>>) : c \in Texts}

----------------------------------------------------------------------------
(* util.py: the Groq attempt inside call_llm's loop *)

\* The exception the try block of one loop iteration raises for a response,
\* "none" if it raises none
GroqRaises(r) ==
    CASE r.phase = "post_raises"          -> r.exc              \* requests.post
      [] r.phase = "status_bad"           -> "HTTPError"        \* raise_for_status()
      [] r.shape = "undecodable"          -> r.exc              \* response.json()
      [] r.shape = "not_object"           -> "AttributeError"   \* data.get
      [] r.shape = "choices_empty"        -> "IndexError"       \* [][0]
      [] r.shape = "choices_object"       -> "KeyError"         \* {}[0]
      [] r.shape = "choices_null"         -> "TypeError"        \* None[0]
      [] r.shape = "choice_not_object"    -> "AttributeError"   \* choices[0].get
      [] r.shape = "message_not_object"   -> "AttributeError"   \* message.get
      [] r.shape = "content_not_string"   -> "AttributeError"   \* content.strip()
      [] OTHER                            -> "none"

\* The value of `content` when the try block raises nothing: the completion text,
\* or a falsy value (None, "", 0) written <<>>
GroqContent(r) == IF r.shape = "content" THEN r.content ELSE <<>>

\* GroqHandler without its last clause, `except Exception`
GroqHandlerNoGeneralClause(c) ==
    IF IsInstance(c, "RequestException") THEN "api_error"
    ELSE IF IsInstance(c, "KeyError") \/ IsInstance(c, "IndexError")
    THEN "structure_error"
    ELSE "uncaught"

\* The except clause of the loop body that catches class c
GroqHandler(c) ==
    IF IsInstance(c, "RequestException") THEN "api_error"
    ELSE IF IsInstance(c, "KeyError") \/ IsInstance(c, "IndexError")
    THEN "structure_error"
    ELSE IF IsInstance(c, "Exception") THEN "general_error"
    ELSE "uncaught"

\* What the code returns for a truthy content
GroqReturnValue(content) == Strip(content)

\* GroqAttempt without the `return` of util.py:107: a truthy content falls
\* through to the backoff like a failure
GroqAttemptNoReturn(r) ==
    LET exc == GroqRaises(r) IN
    IF exc # "none" /\ GroqHandler(exc) = "uncaught"
    THEN [outcome |-> "escape", value |-> <<>>, exc |-> exc]
    ELSE [outcome |-> "retry", value |-> <<>>, exc |-> "none"]

\* GroqAttempt with an early exit for one kind of failure: a 2xx answer without
\* content ends the call with an empty text
GroqAttemptEmptyReturns(r) ==
    LET exc == GroqRaises(r) IN
    IF exc # "none"
    THEN IF GroqHandler(exc) = "uncaught"
         THEN [outcome |-> "escape", value |-> <<>>, exc |-> exc]
         ELSE [outcome |-> "retry", value |-> <<>>, exc |-> "none"]
    ELSE [outcome |-> "return", value |-> GroqReturnValue(GroqContent(r)),
          exc |-> "none"]

\* One loop iteration up to the backoff:
\*   "return"  the iteration returns value
\*   "retry"   the iteration reaches the backoff sleep
\*   "escape"  the exception exc leaves call_llm
GroqAttempt(r) ==
    LET exc == GroqRaises(r) IN
    IF exc # "none"
    THEN IF GroqHandler(exc) = "uncaught"
         THEN [outcome |-> "escape", value |-> <<>>, exc |-> exc]
         ELSE [outcome |-> "retry", value |-> <<>>, exc |-> "none"]
    ELSE IF Truthy(GroqContent(r))
    THEN [outcome |-> "return", value |-> GroqReturnValue(GroqContent(r)),
          exc |-> "none"]
    ELSE [outcome |-> "retry", value |-> <<>>, exc |-> "none"]

\* max_retries off by one
ThreeRetries == 2 + 1

max_retries == 2

RECURSIVE Pow2(_)
Pow2(n) == IF n = 0 THEN 1 ELSE 2 * Pow2(n - 1)

\* Backoff with 2 * attempt for 2 ** attempt
BackoffLinear(a) == 2 * a

\* The argument of asyncio.sleep after the attempt numbered a
Backoff(a) == Pow2(a)

----------------------------------------------------------------------------
(* util.py: _ollama_generate *)

\* The exception the try block raises for a response, "none" if it raises none
OllamaRaises(r) ==
    CASE r.phase = "post_raises"          -> r.exc              \* requests.post
      [] r.phase = "status_bad"           -> "HTTPError"        \* raise_for_status()
      [] r.shape = "undecodable"          -> r.exc              \* response.json()
      [] r.shape = "not_object"           -> "AttributeError"   \* data.get
      [] r.shape = "response_not_string"  -> "AttributeError"   \* .strip()
      [] OTHER                            -> "none"

\* data.get("response", "").strip()
OllamaContent(r) == Strip(IF r.shape = "response" THEN r.content ELSE <<>>)

\* The except clause that catches class c
OllamaHandler(c) ==
    IF IsInstance(c, "RequestException") THEN "request_error"
    ELSE IF IsInstance(c, "JSONDecodeError") THEN "json_error"
    ELSE IF IsInstance(c, "Exception") THEN "general_error"
    ELSE "uncaught"

\* The string an except clause returns
OllamaErrorString(clause, etext) ==
    CASE clause = "request_error" ->
            OllamaConnectPrefix
            \o (IF Truthy(etext) THEN FirstLine(etext) ELSE UnknownRequestError)
      [] clause = "json_error"    -> OllamaNotJsonMsg
      [] OTHER                    -> OllamaUnexpectedPrefix \o etext

\* _ollama_generate for a response: ok says the text came from line 55
OllamaGenerate(r) ==
    LET exc == OllamaRaises(r) IN
    IF exc # "none"
    THEN IF OllamaHandler(exc) = "uncaught"
         THEN [outcome |-> "escape", value |-> <<>>, exc |-> exc, ok |-> FALSE]
         ELSE [outcome |-> "return",
               value |-> OllamaErrorString(OllamaHandler(exc), r.etext),
               exc |-> "none", ok |-> FALSE]
    ELSE IF Truthy(OllamaContent(r))
    THEN [outcome |-> "return", value |-> OllamaContent(r), exc |-> "none",
          ok |-> TRUE]
    ELSE [outcome |-> "return", value |-> OllamaEmptyMsg, exc |-> "none",
          ok |-> FALSE]

----------------------------------------------------------------------------
(* util.py: build_meta_instruction *)

\* The fixed instruction text of the template (util.py:137-160), of which the
\* model keeps the first line
MetaFixedText ==
    <<"Y","o","u"," ","a","r","e"," ","a"," ","U","n","i","v","e","r","s","a",
      "l"," ","O","p","t","i","m","i","z","a","t","i","o","n"," ","A","g","e",
      "n","t",".","\n">>
TaskLabel ==
    <<"T","A","S","K",":"," ">>
ContextLabel ==
    <<"C","O","N","T","E","X","T",":"," ">>

build_meta_instruction(task_description, target_code) ==
    Strip(<<"\n">> \o MetaFixedText \o <<"\n">>
          \o TaskLabel \o task_description \o <<"\n">>
          \o ContextLabel \o target_code \o <<"\n">>)

MetaMaxTokens == 500
ExecMaxTokens == 700

\* util.py:77
MaxTokensFor(is_meta_prompt) ==
    IF is_meta_prompt THEN MetaMaxTokens ELSE ExecMaxTokens

----------------------------------------------------------------------------
(* State machine *)

\* An entry of wf_trace: a request sent to a provider, or the end of the
\* exchange it began (a response, or the exception raised in its place)
Event(stage, provider, kind) ==
    [stage |-> stage, provider |-> provider, kind |-> kind]

\* The provider a call at position pc waits for
ProviderOf(pc) == IF pc = "groq_wait" THEN "groq" ELSE "ollama"

\* execution_time_seconds, a reading of the wall clock, is left out of the dict
NoResult ==
    [user_task |-> <<>>, role_selected |-> <<>>, optimized_prompt |-> <<>>,
     final_output |-> <<>>, output_type |-> "none"]

Init ==
    /\ HIGH_SPEED_MODE \in BOOLEAN
    /\ entry = "none"
    /\ wf_pc = "idle"
    /\ abstract_task = <<>>
    /\ optimized_prompt = <<>>
    /\ chosen_role = <<>>
    /\ cleaned_prompt = <<>>
    /\ optimized_output = <<>>
    /\ result = NoResult
    /\ error = <<>>
    /\ call_pc = "none"
    /\ prompt_to_send = <<>>
    /\ max_tokens = 0
    /\ attempt = 0
    /\ retval = <<>>
    /\ escaped = "none"
    /\ last_response = NoResponse
    /\ trace = <<>>
    /\ sleeps = <<>>
    /\ wf_trace = <<>>
    /\ prev_raised = FALSE
    /\ parked = <<>>

\* No invocation is running
Quiescent ==
    \/ wf_pc \in {"idle", "rejected", "returned", "raised"}
    \/ call_pc = "escaped"

\* EnterCall without the test of HIGH_SPEED_MODE: the Groq branch always runs
EnterCallAlwaysGroq(prompt, is_meta_prompt) ==
    /\ prompt_to_send' = prompt
    /\ max_tokens' = MaxTokensFor(is_meta_prompt)
    /\ attempt' = 0
    /\ retval' = <<>>
    /\ escaped' = "none"
    /\ last_response' = NoResponse
    /\ sleeps' = <<>>
    /\ call_pc' = "groq_wait"
    /\ trace' = <<"groq_request">>

\* call_llm is entered and runs to its first await: in high-speed mode the
\* first Groq request (util.py:95-98), else the Ollama request (util.py:127, 47)
EnterCall(prompt, is_meta_prompt) ==
    /\ prompt_to_send' = prompt
    /\ max_tokens' = MaxTokensFor(is_meta_prompt)
    /\ attempt' = 0
    /\ retval' = <<>>
    /\ escaped' = "none"
    /\ last_response' = NoResponse
    /\ sleeps' = <<>>
    /\ IF HIGH_SPEED_MODE
       THEN call_pc' = "groq_wait" /\ trace' = <<"groq_request">>
       ELSE call_pc' = "ollama_wait" /\ trace' = <<"ollama_request">>

\* apo_workflow(task) up to its first await: agents.py:26-29, 12-15
StartWorkflow(who, task) ==
    /\ entry' = who
    /\ prev_raised' = (wf_pc = "raised")
    /\ wf_pc' = "stage1"
    /\ abstract_task' = task
    /\ optimized_prompt' = <<>>
    /\ chosen_role' = <<>>
    /\ cleaned_prompt' = <<>>
    /\ optimized_output' = <<>>
    /\ result' = NoResult
    /\ error' = <<>>
    /\ EnterCall(build_meta_instruction(task, task), TRUE)
    /\ wf_trace' = <<Event(1, ProviderOf(call_pc'), "request")>>

\* The front end refuses a blank task and runs nothing (cli.py:16-18, app.py:55-56)
RejectTask(who, task) ==
    /\ entry' = who
    /\ prev_raised' = (wf_pc = "raised")
    /\ wf_pc' = "rejected"
    /\ abstract_task' = task
    /\ optimized_prompt' = <<>>
    /\ chosen_role' = <<>>
    /\ cleaned_prompt' = <<>>
    /\ optimized_output' = <<>>
    /\ result' = NoResult
    /\ error' = <<>>
    /\ call_pc' = "none"
    /\ prompt_to_send' = <<>>
    /\ max_tokens' = 0
    /\ attempt' = 0
    /\ retval' = <<>>
    /\ escaped' = "none"
    /\ last_response' = NoResponse
    /\ trace' = <<>>
    /\ sleeps' = <<>>
    /\ wf_trace' = <<>>
    /\ UNCHANGED <<HIGH_SPEED_MODE, parked>>

\* A caller awaits apo_workflow(task) directly
ApoWorkflow ==
    /\ Quiescent
    /\ \E task \in Tasks : StartWorkflow("api", task)
    /\ UNCHANGED <<HIGH_SPEED_MODE, parked>>

\* cli.py main(): the text read from standard input is stripped, a blank task
\* ends the program, any other is run
CliMain ==
    /\ Quiescent
    /\ \E lines \in Tasks :
        LET task == Strip(lines) IN
        IF ~Truthy(task)
        THEN RejectTask("cli", task)
        ELSE StartWorkflow("cli", task) /\ UNCHANGED <<HIGH_SPEED_MODE, parked>>

\* app.py:54-65: the Run button
AppRun ==
    /\ Quiescent
    /\ \E text \in Tasks :
        IF ~Truthy(Strip(text))
        THEN RejectTask("app", text)
        ELSE StartWorkflow("app", Strip(text)) /\ UNCHANGED <<HIGH_SPEED_MODE, parked>>

wf_vars == <<entry, wf_pc, abstract_task, optimized_prompt, chosen_role,
             cleaned_prompt, optimized_output, result, error>>

\* The stage of apo_workflow the running call belongs to
Stage == IF wf_pc = "stage1" THEN 1 ELSE 2

\* GroqResponse with the fallback taken at once: after the last failed attempt
\* the Ollama request is sent without the backoff sleep
GroqResponseNoLastSleep ==
    /\ call_pc = "groq_wait"
    /\ \E r \in GroqResponses :
        LET a == GroqAttempt(r) IN
        /\ last_response' = r
        /\ CASE a.outcome = "return" ->
                   /\ call_pc' = "done"
                   /\ retval' = a.value
                   /\ trace' = trace \o <<"groq_ok">>
                   /\ wf_trace' = Append(wf_trace, Event(Stage, "groq", "response"))
                   /\ UNCHANGED <<escaped, sleeps>>
             [] a.outcome = "retry" /\ attempt + 1 < max_retries ->
                   /\ call_pc' = "sleeping"
                   /\ sleeps' = Append(sleeps, Backoff(attempt))
                   /\ trace' = trace \o <<"groq_failed", "sleep">>
                   /\ wf_trace' = Append(wf_trace, Event(Stage, "groq", "response"))
                   /\ UNCHANGED <<escaped, retval>>
             [] a.outcome = "retry" /\ ~(attempt + 1 < max_retries) ->
                   /\ call_pc' = "ollama_wait"
                   /\ trace' = trace \o <<"groq_failed", "ollama_request">>
                   /\ wf_trace' = wf_trace \o <<Event(Stage, "groq", "response"),
                                                 Event(Stage, "ollama", "request")>>
                   /\ UNCHANGED <<escaped, retval, sleeps>>
             [] OTHER ->
                   /\ call_pc' = "escaped"
                   /\ escaped' = a.exc
                   /\ trace' = trace \o <<"groq_failed">>
                   /\ wf_trace' = Append(wf_trace, Event(Stage, "groq", "response"))
                   /\ UNCHANGED <<retval, sleeps>>
    /\ UNCHANGED <<HIGH_SPEED_MODE, prompt_to_send, max_tokens, attempt>>
    /\ UNCHANGED wf_vars
    /\ prev_raised' = FALSE
    /\ UNCHANGED parked

\* util.py:98-118: the response to the Groq request arrives, one of responses
GroqResponseFrom(responses) ==
    /\ call_pc = "groq_wait"
    /\ \E r \in responses :
        LET a == GroqAttempt(r) IN
        /\ last_response' = r
        /\ CASE a.outcome = "return" ->
                   /\ call_pc' = "done"
                   /\ retval' = a.value
                   /\ trace' = trace \o <<"groq_ok">>
                   /\ UNCHANGED <<escaped, sleeps>>
             [] a.outcome = "retry" ->
                   /\ call_pc' = "sleeping"
                   /\ sleeps' = Append(sleeps, Backoff(attempt))
                   /\ trace' = trace \o <<"groq_failed", "sleep">>
                   /\ UNCHANGED <<escaped, retval>>
             [] OTHER ->
                   /\ call_pc' = "escaped"
                   /\ escaped' = a.exc
                   /\ trace' = trace \o <<"groq_failed">>
                   /\ UNCHANGED <<retval, sleeps>>
    /\ wf_trace' = Append(wf_trace, Event(Stage, "groq", "response"))
    /\ UNCHANGED <<HIGH_SPEED_MODE, prompt_to_send, max_tokens, attempt>>
    /\ UNCHANGED wf_vars
    /\ prev_raised' = FALSE
    /\ UNCHANGED parked

\* util.py:98-118: the response to the Groq request arrives
GroqResponse == GroqResponseFrom(GroqResponses)

\* SleepDone with a switch to local-only mode: giving up on Groq clears
\* HIGH_SPEED_MODE for the rest of the process
SleepDoneDisablesGroq ==
    /\ call_pc = "sleeping"
    /\ IF attempt + 1 < max_retries
       THEN /\ attempt' = attempt + 1
            /\ call_pc' = "groq_wait"
            /\ trace' = trace \o <<"groq_request">>
            /\ HIGH_SPEED_MODE' = HIGH_SPEED_MODE
       ELSE /\ attempt' = attempt
            /\ call_pc' = "ollama_wait"
            /\ trace' = trace \o <<"ollama_request">>
            /\ HIGH_SPEED_MODE' = FALSE
    /\ wf_trace' = Append(wf_trace, Event(Stage, ProviderOf(call_pc'), "request"))
    /\ UNCHANGED <<prompt_to_send, max_tokens, retval, escaped, last_response, sleeps>>
    /\ UNCHANGED wf_vars
    /\ UNCHANGED prev_raised
    /\ UNCHANGED parked

\* util.py:118, 95, 122: the backoff sleep ends; the loop goes on with the next
\* Groq request or, after the last attempt, falls back to Ollama
SleepDone ==
    /\ call_pc = "sleeping"
    /\ IF attempt + 1 < max_retries
       THEN /\ attempt' = attempt + 1
            /\ call_pc' = "groq_wait"
            /\ trace' = trace \o <<"groq_request">>
       ELSE /\ attempt' = attempt
            /\ call_pc' = "ollama_wait"
            /\ trace' = trace \o <<"ollama_request">>
    /\ wf_trace' = Append(wf_trace, Event(Stage, ProviderOf(call_pc'), "request"))
    /\ UNCHANGED <<HIGH_SPEED_MODE, prompt_to_send, max_tokens, retval, escaped,
                   last_response, sleeps>>
    /\ UNCHANGED wf_vars
    /\ UNCHANGED prev_raised
    /\ UNCHANGED parked

\* OllamaResponse with a retry of its own: a first failure of Ollama sends the
\* request once more
OllamaResponseRetry ==
    /\ call_pc = "ollama_wait"
    /\ \E r \in OllamaResponses :
        LET g == OllamaGenerate(r)
            again == ~g.ok /\ Len(SelectSeq(trace, LAMBDA e : e = "ollama_request")) < 2
        IN
        /\ last_response' = r
        /\ call_pc' = IF again THEN "ollama_wait" ELSE "done"
        /\ retval' = IF again THEN retval ELSE g.value
        /\ escaped' = escaped
        /\ trace' = trace \o <<IF g.ok THEN "ollama_ok" ELSE "ollama_failed">>
                           \o (IF again THEN <<"ollama_request">> ELSE <<>>)
        /\ wf_trace' = wf_trace \o <<Event(Stage, "ollama", "response")>>
                \o (IF again THEN <<Event(Stage, "ollama", "request")>> ELSE <<>>)
    /\ UNCHANGED <<HIGH_SPEED_MODE, prompt_to_send, max_tokens, attempt, sleeps>>
    /\ UNCHANGED wf_vars
    /\ prev_raised' = FALSE
    /\ UNCHANGED parked

\* util.py:47-68: the response to the Ollama request arrives, one of responses
OllamaResponseFrom(responses) ==
    /\ call_pc = "ollama_wait"
    /\ \E r \in responses :
        LET g == OllamaGenerate(r) IN
        /\ last_response' = r
        /\ IF g.outcome = "return"
           THEN /\ call_pc' = "done"
                /\ retval' = g.value
                /\ escaped' = escaped
                /\ trace' = trace \o <<IF g.ok THEN "ollama_ok" ELSE "ollama_failed">>
           ELSE /\ call_pc' = "escaped"
                /\ retval' = retval
                /\ escaped' = g.exc
                /\ trace' = trace \o <<"ollama_failed">>
    /\ wf_trace' = Append(wf_trace, Event(Stage, "ollama", "response"))
    /\ UNCHANGED <<HIGH_SPEED_MODE, prompt_to_send, max_tokens, attempt, sleeps>>
    /\ UNCHANGED wf_vars
    /\ prev_raised' = FALSE
    /\ UNCHANGED parked

\* util.py:47-68: the response to the Ollama request arrives
OllamaResponse == OllamaResponseFrom(OllamaResponses)

----------------------------------------------------------------------------
(* agents.py:49  re.search(r"```(.*?)\n(.*?)```", optimized_output, re.DOTALL) *)

\* The three backquotes of the pattern match at position p
FenceAt(s, p) == p >= 1 /\ p + 2 <= Len(s) /\ SubSeq(s, p, p + 2) = Fence

\* LazyBody for a greedy second group, (.*) for (.*?): the last closing
\* backquotes at or after position k
RECURSIVE GreedyBody(_, _)
GreedyBody(s, k) ==
    IF k > Len(s) THEN 0
    ELSE LET later == GreedyBody(s, k + 1) IN
         IF later # 0 THEN later
         ELSE IF FenceAt(s, k) THEN k ELSE 0

\* The second group, lazy: it grows from position k one character at a time
\* until the closing backquotes match; 0 if they never do
RECURSIVE LazyBody(_, _)
LazyBody(s, k) ==
    IF k > Len(s) THEN 0
    ELSE IF FenceAt(s, k) THEN k
    ELSE LazyBody(s, k + 1)

\* The first group, lazy: it grows from position j one character at a time (any
\* character, line breaks too, under DOTALL) until a line break follows it and
\* the rest of the pattern matches; the position of that line break, 0 if none
RECURSIVE LazyTag(_, _)
LazyTag(s, j) ==
    IF j > Len(s) THEN 0
    ELSE IF s[j] = "\n" /\ LazyBody(s, j + 1) # 0 THEN j
    ELSE LazyTag(s, j + 1)

\* re.search: the leftmost position where the pattern matches, 0 if none
RECURSIVE SearchFrom(_, _)
SearchFrom(s, i) ==
    IF i > Len(s) THEN 0
    ELSE IF FenceAt(s, i) /\ LazyTag(s, i + 3) # 0 THEN i
    ELSE SearchFrom(s, i + 1)

\* The match object: group 1 and group 2 of the leftmost match
CodeMatch(s) ==
    LET i == SearchFrom(s, 1) IN
    IF i = 0 THEN [found |-> FALSE, group1 |-> <<>>, group2 |-> <<>>]
    ELSE LET j == LazyTag(s, i + 3)
             k == LazyBody(s, j + 1)
         IN  [found |-> TRUE,
              group1 |-> SubSeq(s, i + 3, j - 1),
              group2 |-> SubSeq(s, j + 1, k - 1)]

\* agents.py:48-56
ExtractFinalOutput(output) ==
    LET code_match == CodeMatch(output) IN
    IF code_match.found
    THEN [final_output |-> Strip(code_match.group2), output_type |-> "code"]
    ELSE [final_output |-> Strip(output), output_type |-> "text"]

----------------------------------------------------------------------------
(* agents.py:37-39  the role label and the prompt cleaned of it *)

Letters ==
    {"A","B","C","D","E","F","G","H","I","J","K","L","M","N","O","P","Q","R",
     "S","T","U","V","W","X","Y","Z","a","b","c","d","e","f","g","h","i","j",
     "k","l","m","n","o","p","q","r","s","t","u","v","w","x","y","z"}

Digits == {"0","1","2","3","4","5","6","7","8","9"}

\* The character class [A-Za-z0-9 ,\-]
IsRoleChar(c) == c \in Letters \cup Digits \cup {" ", ",", "-"}

RoleLiteral == <<"R","O","L","E">>

NoRole == <<"N","/","A">>

\* The literal ROLE of both patterns matches at position i
RoleAt(s, i) == i >= 1 /\ i + 3 <= Len(s) /\ SubSeq(s, i, i + 3) = RoleLiteral

\* :? and then " "?, both greedy: the position after them, from position p
AfterMarker(s, p) ==
    LET q == IF p <= Len(s) /\ s[p] = ":" THEN p + 1 ELSE p IN
    IF q <= Len(s) /\ s[q] = " " THEN q + 1 ELSE q

\* [A-Za-z0-9 ,\-]* greedy: the position after the longest run from position p
RECURSIVE AfterLabel(_, _)
AfterLabel(s, p) ==
    IF p <= Len(s) /\ IsRoleChar(s[p]) THEN AfterLabel(s, p + 1) ELSE p

\* re.search / re.sub scan: the leftmost position at or after i where ROLE
\* stands, 0 if none (the rest of either pattern matches anything)
RECURSIVE RoleFrom(_, _)
RoleFrom(s, i) ==
    IF i > Len(s) THEN 0
    ELSE IF RoleAt(s, i) THEN i
    ELSE RoleFrom(s, i + 1)

\* agents.py:37-38  chosen_role
ChosenRole(prompt) ==
    LET i == RoleFrom(prompt, 1) IN
    IF i = 0 THEN NoRole
    ELSE LET p == AfterMarker(prompt, i + 4) IN
         Strip(SubSeq(prompt, p, AfterLabel(prompt, p) - 1))

\* re.sub(r"ROLE:? ?[A-Za-z0-9 ,\-]*\n?", "", s): every match, left to right,
\* is dropped; pos is the position the scan has reached
RECURSIVE RoleSub(_, _)
RoleSub(s, pos) ==
    LET i == RoleFrom(s, pos) IN
    IF i = 0 THEN SubSeq(s, pos, Len(s))
    ELSE LET q == AfterLabel(s, AfterMarker(s, i + 4))
             e == IF q <= Len(s) /\ s[q] = "\n" THEN q + 1 ELSE q
         IN  SubSeq(s, pos, i - 1) \o RoleSub(s, e)

\* agents.py:39  cleaned_prompt
CleanedPrompt(prompt) == Strip(RoleSub(prompt, 1))

----------------------------------------------------------------------------
(* agents.py: apo_workflow after each await *)

call_vars == <<call_pc, prompt_to_send, max_tokens, attempt, retval, escaped,
               last_response, trace, sleeps>>

\* agents.py:32  optimized_prompt.startswith("Error:")
IsFailureString(s) == StartsWith(s, ErrorMarker)

\* Stage1Return without the test of agents.py:32: whatever the first call
\* returned is taken for a prompt
Stage1ReturnNoCheck ==
    /\ wf_pc = "stage1"
    /\ call_pc = "done"
    /\ optimized_prompt' = retval
    /\ wf_pc' = "stage2"
    /\ error' = error
    /\ chosen_role' = ChosenRole(retval)
    /\ cleaned_prompt' = CleanedPrompt(retval)
    /\ EnterCall(retval, FALSE)
    /\ wf_trace' = Append(wf_trace, Event(2, ProviderOf(call_pc'), "request"))
    /\ UNCHANGED <<HIGH_SPEED_MODE, entry, abstract_task, optimized_output, result,
                   prev_raised, parked>>

\* Stage1Return with the cleaned prompt passed on to the second call
Stage1ReturnSendsCleaned ==
    /\ wf_pc = "stage1"
    /\ call_pc = "done"
    /\ optimized_prompt' = retval
    /\ IF IsFailureString(retval)
       THEN /\ wf_pc' = "raised"
            /\ error' = retval
            /\ UNCHANGED <<chosen_role, cleaned_prompt>>
            /\ UNCHANGED call_vars
            /\ UNCHANGED wf_trace
       ELSE /\ wf_pc' = "stage2"
            /\ error' = error
            /\ chosen_role' = ChosenRole(retval)
            /\ cleaned_prompt' = CleanedPrompt(retval)
            /\ EnterCall(CleanedPrompt(retval), FALSE)
            /\ wf_trace' = Append(wf_trace, Event(2, ProviderOf(call_pc'), "request"))
    /\ UNCHANGED <<HIGH_SPEED_MODE, entry, abstract_task, optimized_output, result,
                   prev_raised, parked>>

\* agents.py:29-42: the first call returned; the workflow raises or starts the
\* second call with the prompt as returned
Stage1Return ==
    /\ wf_pc = "stage1"
    /\ call_pc = "done"
    /\ optimized_prompt' = retval
    /\ IF IsFailureString(retval)
       THEN /\ wf_pc' = "raised"
            /\ error' = retval
            /\ UNCHANGED <<chosen_role, cleaned_prompt>>
            /\ UNCHANGED call_vars
            /\ UNCHANGED wf_trace
       ELSE /\ wf_pc' = "stage2"
            /\ error' = error
            /\ chosen_role' = ChosenRole(retval)
            /\ cleaned_prompt' = CleanedPrompt(retval)
            /\ EnterCall(retval, FALSE)
            /\ wf_trace' = Append(wf_trace, Event(2, ProviderOf(call_pc'), "request"))
    /\ UNCHANGED <<HIGH_SPEED_MODE, entry, abstract_task, optimized_output, result,
                   prev_raised, parked>>

\* agents.py:42-68: the second call returned; the workflow raises or returns
\* the result
Stage2Return ==
    /\ wf_pc = "stage2"
    /\ call_pc = "done"
    /\ optimized_output' = retval
    /\ IF IsFailureString(retval)
       THEN /\ wf_pc' = "raised"
            /\ error' = retval
            /\ result' = result
       ELSE /\ wf_pc' = "returned"
            /\ error' = error
            /\ result' =
                LET x == ExtractFinalOutput(retval) IN
                [user_task |-> abstract_task,
                 role_selected |-> chosen_role,
                 optimized_prompt |-> cleaned_prompt,
                 final_output |-> x.final_output,
                 output_type |-> x.output_type]
    /\ UNCHANGED <<HIGH_SPEED_MODE, entry, abstract_task, optimized_prompt,
                   chosen_role, cleaned_prompt, prev_raised, parked>>
    /\ UNCHANGED call_vars
    /\ UNCHANGED wf_trace

Next ==
    \/ ApoWorkflow
    \/ CliMain
    \/ AppRun
    \/ GroqResponse
    \/ SleepDone
    \/ OllamaResponse
    \/ Stage1Return
    \/ Stage2Return

Spec == Init /\ [][Next]_vars

----------------------------------------------------------------------------
(* The output parser on its own: every state in which the second call has just
   returned a text to apo_workflow, and the step that parses it *)

\* What call_llm can return: a stripped text
ParseInputs == {Strip(t) : t \in TextsOf(MaxParseTokens)}

InitParse ==
    /\ HIGH_SPEED_MODE = FALSE
    /\ entry = "api"
    /\ wf_pc = "stage2"
    /\ abstract_task = <<"a">>
    /\ optimized_prompt = <<"a">>
    /\ chosen_role = ChosenRole(optimized_prompt)
    /\ cleaned_prompt = CleanedPrompt(optimized_prompt)
    /\ optimized_output = <<>>
    /\ result = NoResult
    /\ error = <<>>
    /\ call_pc = "done"
    /\ prompt_to_send = <<"a">>
    /\ max_tokens = MaxTokensFor(FALSE)
    /\ attempt = 0
    /\ retval \in ParseInputs \ {<<>>}
    /\ escaped = "none"
    /\ last_response = Resp("body", "none", "response", retval, <<>>)
    /\ trace = <<"ollama_request", "ollama_ok">>
    /\ sleeps = <<>>
    /\ wf_trace = <<Event(1, "ollama", "request"), Event(1, "ollama", "response"),
                    Event(2, "ollama", "request"), Event(2, "ollama", "response")>>
    /\ prev_raised = FALSE
    /\ parked = <<>>

NextParse == Stage2Return

SpecParse == InitParse /\ [][NextParse]_vars

----------------------------------------------------------------------------
(* The role parser on its own: every state in which the first call has just
   returned a prompt to apo_workflow (local-only mode), and the rest of the
   workflow from there *)

\* The pieces stage-1 prompts are built from
RoleTokens == {RoleLiteral, <<":">>, <<" ">>, <<"\n">>, <<"a">>}

\* What call_llm can return: a stripped text
RoleInputs ==
    {Strip(Concat(ts)) : ts \in UNION {[1..k -> RoleTokens] : k \in 0..MaxRoleTokens}}

InitRole ==
    /\ HIGH_SPEED_MODE = FALSE
    /\ entry = "api"
    /\ wf_pc = "stage1"
    /\ abstract_task = <<"a">>
    /\ optimized_prompt = <<>>
    /\ chosen_role = <<>>
    /\ cleaned_prompt = <<>>
    /\ optimized_output = <<>>
    /\ result = NoResult
    /\ error = <<>>
    /\ call_pc = "done"
    /\ prompt_to_send = build_meta_instruction(abstract_task, abstract_task)
    /\ max_tokens = MaxTokensFor(TRUE)
    /\ attempt = 0
    /\ retval \in RoleInputs \ {<<>>}
    /\ escaped = "none"
    /\ last_response = Resp("body", "none", "response", retval, <<>>)
    /\ trace = <<"ollama_request", "ollama_ok">>
    /\ sleeps = <<>>
    /\ wf_trace = <<Event(1, "ollama", "request"), Event(1, "ollama", "response")>>
    /\ prev_raised = FALSE
    /\ parked = <<>>

NextRole ==
    \/ Stage1Return
    \/ OllamaResponse
    \/ Stage2Return

SpecRole == InitRole /\ [][NextRole]_vars

----------------------------------------------------------------------------
(* Several workflows on one event loop: a caller creates apo_workflow
   coroutines while others are suspended, and at every await (agents.py:29, 42;
   util.py:98, 118, 47) the loop may resume another one.  A suspended
   coroutine keeps the locals of apo_workflow and call_llm in its frame; the
   module globals of util.py are all the coroutines share *)

\* The task of the n-th workflow created
ConcTask(n) == [i \in 1..n |-> "a"]

\* The answers the providers give when several workflows run
ConcGroqResponses ==
    {Resp("body", "none", "no_choices", <<>>, <<"x">>),
     Resp("body", "none", "content", <<"a">>, <<>>)}

ConcOllamaResponses ==
    {Resp("status_bad", "none", "none", <<>>, <<"x">>),
     Resp("body", "none", "response", <<"a">>, <<>>)}

\* The frame of the running workflow: the locals of apo_workflow and of the
\* call_llm it awaits (with their history)
CurrentFrame ==
    [entry |-> entry,
     wf_pc |-> wf_pc,
     abstract_task |-> abstract_task,
     optimized_prompt |-> optimized_prompt,
     chosen_role |-> chosen_role,
     cleaned_prompt |-> cleaned_prompt,
     optimized_output |-> optimized_output,
     result |-> result,
     error |-> error,
     prev_raised |-> prev_raised,
     call_pc |-> call_pc,
     prompt_to_send |-> prompt_to_send,
     max_tokens |-> max_tokens,
     attempt |-> attempt,
     retval |-> retval,
     escaped |-> escaped,
     last_response |-> last_response,
     trace |-> trace,
     sleeps |-> sleeps,
     wf_trace |-> wf_trace]

\* Resume with the retry counter kept in a module global: `attempt` is not
\* part of the frame, every coroutine reads and writes the same one
ResumeSharedAttempt(f) ==
    /\ entry' = f.entry
    /\ wf_pc' = f.wf_pc
    /\ abstract_task' = f.abstract_task
    /\ optimized_prompt' = f.optimized_prompt
    /\ chosen_role' = f.chosen_role
    /\ cleaned_prompt' = f.cleaned_prompt
    /\ optimized_output' = f.optimized_output
    /\ result' = f.result
    /\ error' = f.error
    /\ prev_raised' = f.prev_raised
    /\ call_pc' = f.call_pc
    /\ prompt_to_send' = f.prompt_to_send
    /\ max_tokens' = f.max_tokens
    /\ attempt' = attempt
    /\ retval' = f.retval
    /\ escaped' = f.escaped
    /\ last_response' = f.last_response
    /\ trace' = f.trace
    /\ sleeps' = f.sleeps
    /\ wf_trace' = f.wf_trace

\* The event loop resumes the coroutine whose frame is f
Resume(f) ==
    /\ entry' = f.entry
    /\ wf_pc' = f.wf_pc
    /\ abstract_task' = f.abstract_task
    /\ optimized_prompt' = f.optimized_prompt
    /\ chosen_role' = f.chosen_role
    /\ cleaned_prompt' = f.cleaned_prompt
    /\ optimized_output' = f.optimized_output
    /\ result' = f.result
    /\ error' = f.error
    /\ prev_raised' = f.prev_raised
    /\ call_pc' = f.call_pc
    /\ prompt_to_send' = f.prompt_to_send
    /\ max_tokens' = f.max_tokens
    /\ attempt' = f.attempt
    /\ retval' = f.retval
    /\ escaped' = f.escaped
    /\ last_response' = f.last_response
    /\ trace' = f.trace
    /\ sleeps' = f.sleeps
    /\ wf_trace' = f.wf_trace

\* A caller creates one more workflow (asyncio.create_task, asyncio.gather):
\* the running one, if any, stays suspended at its await, the new one runs to
\* its first await
CreateWorkflow ==
    /\ Len(parked) + (IF wf_pc = "idle" THEN 0 ELSE 1) < NumWorkflows
    /\ parked' = IF wf_pc = "idle" THEN parked ELSE Append(parked, CurrentFrame)
    /\ StartWorkflow("api", ConcTask(Len(parked') + 1))
    /\ UNCHANGED HIGH_SPEED_MODE

\* The running workflow is suspended at its await, or has ended, and the event
\* loop resumes another one
Switch ==
    /\ \E i \in DOMAIN parked :
        /\ Resume(parked[i])
        /\ parked' = [parked EXCEPT ![i] = CurrentFrame]
    /\ UNCHANGED HIGH_SPEED_MODE

ConcGroqResponse == GroqResponseFrom(ConcGroqResponses)

ConcOllamaResponse == OllamaResponseFrom(ConcOllamaResponses)

NextConc ==
    \/ CreateWorkflow
    \/ Switch
    \/ ConcGroqResponse
    \/ SleepDone
    \/ ConcOllamaResponse
    \/ Stage1Return
    \/ Stage2Return

SpecConc == Init /\ [][NextConc]_vars

----------------------------------------------------------------------------
(* Properties *)

Count(seq, x) == Cardinality({i \in DOMAIN seq : seq[i] = x})

Last(seq) == seq[Len(seq)]

\* A provider response that carries no completion text
IsFailureResponse(r) ==
    \/ r.phase # "body"
    \/ r.shape \notin {"content", "response"}
    \/ r.content = <<>>

\* The call handled a Groq response last
LastWasGroq == last_response # NoResponse /\ Count(trace, "ollama_request") = 0

BothGroqAttemptsFailed ==
    <<"groq_request", "groq_failed", "sleep", "groq_request", "groq_failed", "sleep">>

\* C1: no exception leaves call_llm, whatever the providers answer on each
\* attempt and in either mode; a finished call has returned a str, and when
\* the response it ended on was a failure that str starts with "Error:".
C1_NeverRaises ==
    /\ call_pc # "escaped"
    /\ escaped = "none"
    /\ call_pc = "done" =>
        /\ retval \in Seq(STRING)
        /\ IsFailureResponse(last_response) => StartsWith(retval, ErrorMarker)

\* A call in high-speed mode that met a wrongly shaped completion on a Groq
\* attempt, failed on the other too and then failed on Ollama
C1_Witness ==
    /\ HIGH_SPEED_MODE
    /\ call_pc = "done"
    /\ trace = BothGroqAttemptsFailed \o <<"ollama_request", "ollama_failed">>
    /\ last_response.shape = "not_object"
    /\ StartsWith(retval, ErrorMarker)

\* C2: the str call_llm returns is never empty.
C2_NeverEmpty ==
    call_pc = "done" => retval # <<>>

\* C3: in high-speed mode, once both Groq attempts of a call have failed and
\* the second backoff is over, Ollama has been asked exactly once; the call
\* then ends on Ollama's answer, returned as _ollama_generate produced it, and
\* nothing follows it.
C3_Fallback ==
    (HIGH_SPEED_MODE /\ Count(trace, "groq_failed") = 2) =>
        /\ Count(trace, "groq_request") = 2
        /\ call_pc \in {"sleeping", "ollama_wait", "done"}
        /\ call_pc = "sleeping" => trace = BothGroqAttemptsFailed
        /\ call_pc = "ollama_wait" =>
            trace = BothGroqAttemptsFailed \o <<"ollama_request">>
        /\ call_pc = "done" =>
            /\ \E x \in {"ollama_ok", "ollama_failed"} :
                trace = BothGroqAttemptsFailed \o <<"ollama_request", x>>
            /\ retval = OllamaGenerate(last_response).value
            /\ Last(trace) = "ollama_ok" => retval = Strip(last_response.content)

\* Both Groq attempts failed and the call returned Ollama's text
C3_Witness ==
    /\ HIGH_SPEED_MODE
    /\ call_pc = "done"
    /\ trace = BothGroqAttemptsFailed \o <<"ollama_request", "ollama_ok">>
    /\ retval = <<"a">>

\* C4: when a Groq attempt, the first or the second, brings a non-empty
\* completion text, the call is over with that text (trimmed, as util.py:107
\* returns it): no Groq request, no sleep and no Ollama request follows it.
C4_ReturnsAtOnce ==
    (LastWasGroq /\ ~IsFailureResponse(last_response)) =>
        /\ call_pc = "done"
        /\ retval = Strip(last_response.content)
        /\ Last(trace) = "groq_ok"
        /\ Count(trace, "groq_ok") = 1
        /\ Count(trace, "ollama_request") = 0
        /\ Count(trace, "groq_request") = Count(trace, "groq_failed") + 1
        /\ Count(trace, "sleep") = Count(trace, "groq_failed")
        /\ Len(sleeps) = Count(trace, "groq_failed")

\* The second Groq attempt succeeded after the first had failed
C4_Witness ==
    /\ call_pc = "done"
    /\ trace = <<"groq_request", "groq_failed", "sleep", "groq_request", "groq_ok">>
    /\ sleeps = <<1>>
    /\ retval = <<"a">>

\* C5: a call in high-speed mode makes at most 2 Groq attempts; each failed
\* attempt is followed by one sleep, of 2^attempt seconds (1, then 2), so the
\* sleeps of a call never get shorter.
C5_Backoff ==
    HIGH_SPEED_MODE =>
        /\ Count(trace, "groq_request") <= 2
        /\ Len(sleeps) = Count(trace, "groq_failed")
        /\ Len(sleeps) <= 2
        /\ \A i \in DOMAIN sleeps : sleeps[i] = 2 ^ (i - 1)
        /\ \A i, j \in DOMAIN sleeps : i <= j => sleeps[i] <= sleeps[j]

\* Both backoff sleeps of a call have been taken
C5_Witness ==
    /\ HIGH_SPEED_MODE
    /\ sleeps = <<1, 2>>
    /\ Count(trace, "groq_request") = 2

\* C6: without a credential a call makes one Ollama request and nothing else:
\* no Groq request, no sleep, no second request, whatever Ollama answers.
C6_LocalOnly ==
    (~HIGH_SPEED_MODE /\ call_pc # "none") =>
        /\ Count(trace, "groq_request") = 0
        /\ Count(trace, "sleep") = 0
        /\ sleeps = <<>>
        /\ attempt = 0
        /\ Count(trace, "ollama_request") = 1
        /\ call_pc \in {"ollama_wait", "done"}
        /\ call_pc = "ollama_wait" => trace = <<"ollama_request">>
        /\ call_pc = "done" =>
            \E x \in {"ollama_ok", "ollama_failed"} :
                trace = <<"ollama_request", x>>

\* A local-only call that ended on a failure of Ollama
C6_Witness ==
    /\ ~HIGH_SPEED_MODE
    /\ call_pc = "done"
    /\ trace = <<"ollama_request", "ollama_failed">>
    /\ IsFailureResponse(last_response)

\* C7: apo_workflow makes no provider request for an empty or whitespace-only
\* task.
C7_BlankTaskRejected ==
    ~Truthy(Strip(abstract_task)) =>
        /\ Count(trace, "groq_request") = 0
        /\ Count(trace, "ollama_request") = 0

\* C8: apo_workflow raises its ConnectionError only when the provider call of
\* the stage failed for good, that is when the call ended on a failure of
\* Ollama (after two failed Groq attempts in high-speed mode).
C8_RaisesOnlyOnFailure ==
    wf_pc = "raised" =>
        /\ Last(trace) = "ollama_failed"
        /\ IsFailureResponse(last_response)
        /\ HIGH_SPEED_MODE => Count(trace, "groq_failed") = 2

\* C9: a returned result has a non-empty final_output and an output_type of
\* "code" or "text".
C9_ResultWellFormed ==
    wf_pc = "returned" =>
        /\ result.final_output # <<>>
        /\ result.output_type \in {"code", "text"}

\* Positions i, j, k of s delimit a fenced block: three backquotes at i, the
\* rest of the opening line (the tag) up to the line break at j, the body up to
\* the next three backquotes, at k
IsFencedBlock(s, i, j, k) ==
    /\ FenceAt(s, i)
    /\ j >= i + 3 /\ j <= Len(s) /\ s[j] = "\n"
    /\ \A m \in (i + 3)..(j - 1) : s[m] # "\n"
    /\ k > j /\ FenceAt(s, k)
    /\ \A m \in (j + 1)..(k - 1) : ~FenceAt(s, m)

HasFencedBlock(s) ==
    \E i, j, k \in 1..Len(s) : IsFencedBlock(s, i, j, k)

\* C10: when the stage-2 output holds a fenced block, final_output is the
\* trimmed body of the first one and output_type is "code", whatever the tag;
\* when it holds none, final_output is the trimmed output and output_type is
\* "text".
C10_OutputParsing ==
    wf_pc = "returned" =>
        LET s == optimized_output IN
        IF HasFencedBlock(s)
        THEN /\ result.output_type = "code"
             /\ \E i, j, k \in 1..Len(s) :
                    /\ IsFencedBlock(s, i, j, k)
                    /\ \A i2 \in 1..(i - 1) :
                           ~\E j2, k2 \in 1..Len(s) : IsFencedBlock(s, i2, j2, k2)
                    /\ result.final_output = Strip(SubSeq(s, j + 1, k - 1))
        ELSE /\ result.output_type = "text"
             /\ result.final_output = Strip(s)

\* An output with a tagged block and a second closing fence after it was parsed
C10_Witness ==
    /\ wf_pc = "returned"
    /\ optimized_output = Fence \o <<"a", "\n", "a">> \o Fence
    /\ result.output_type = "code"
    /\ result.final_output = <<"a">>

\* The marker the claim looks for at the start of a stage-1 prompt
RoleMarker == RoleLiteral \o <<":">>

\* The label that follows a leading marker: the run of letters, digits, spaces,
\* commas and hyphens after it, trimmed
LeadingRoleLabel(s) ==
    Strip(SubSeq(s, Len(RoleMarker) + 1, AfterLabel(s, Len(RoleMarker) + 1) - 1))

\* C11: in a returned result, role_selected is the label that follows the
\* "ROLE:" marker the stage-1 prompt starts with; when the stage-1 prompt does
\* not start with that marker, role_selected is "N/A" and the result's
\* optimized_prompt is the stage-1 prompt unchanged.
C11_RoleExtraction ==
    wf_pc = "returned" =>
        IF StartsWith(optimized_prompt, RoleMarker)
        THEN result.role_selected = LeadingRoleLabel(optimized_prompt)
        ELSE /\ result.role_selected = NoRole
             /\ result.optimized_prompt = optimized_prompt

\* The prompt without its first role marker line: the first ROLE, the colon and
\* space after it, its label and the line break that ends the line
WithoutFirstRoleLine(s) ==
    LET i == RoleFrom(s, 1) IN
    IF i = 0 THEN s
    ELSE LET q == AfterLabel(s, AfterMarker(s, i + 4))
             e == IF q <= Len(s) /\ s[q] = "\n" THEN q + 1 ELSE q
         IN  SubSeq(s, 1, i - 1) \o SubSeq(s, e, Len(s))

\* C12: in a returned result, optimized_prompt is the stage-1 prompt with the
\* one line that carries the extracted role taken out (and the ends trimmed);
\* everything else, later text with the letters ROLE too, is kept.
C12_CleaningRemovesOneLine ==
    wf_pc = "returned" =>
        result.optimized_prompt = Strip(WithoutFirstRoleLine(optimized_prompt))

\* The positions of the log that hold a request of the given stage to the
\* given provider
RequestsOf(log, stage, provider) ==
    {i \in DOMAIN log : log[i] = Event(stage, provider, "request")}

\* C13: a workflow sends at most 6 provider requests, per stage at most two to
\* Groq and one to Ollama; a request is sent only when every earlier request
\* has been answered, and no event of stage 1 follows an event of stage 2.
C13_TwoExchangesInSequence ==
    /\ Cardinality({i \in DOMAIN wf_trace : wf_trace[i].kind = "request"}) <= 6
    /\ \A st \in {1, 2} :
        /\ Cardinality(RequestsOf(wf_trace, st, "groq")) <= 2
        /\ Cardinality(RequestsOf(wf_trace, st, "ollama")) <= 1
    /\ \A i \in DOMAIN wf_trace :
        /\ wf_trace[i].kind = "request" =>
                i = 1 \/ wf_trace[i - 1].kind = "response"
        /\ wf_trace[i].kind = "response" =>
                i > 1 /\ wf_trace[i - 1] =
                    Event(wf_trace[i].stage, wf_trace[i].provider, "request")
    /\ \A i, j \in DOMAIN wf_trace : i < j => wf_trace[i].stage <= wf_trace[j].stage

\* A workflow that returned a result after six requests: both stages went
\* through two Groq attempts and the Ollama fallback
C13_Witness ==
    /\ wf_pc = "returned"
    /\ Len(wf_trace) = 12
    /\ Cardinality({i \in DOMAIN wf_trace : wf_trace[i].kind = "request"}) = 6
    /\ wf_trace[6] = Event(1, "ollama", "response")
    /\ wf_trace[7] = Event(2, "groq", "request")

\* C14: once the first call has returned a string that starts with "Error:",
\* apo_workflow has raised a ConnectionError with that string as its message;
\* it has returned no result, has sent no stage-2 request, and has made no
\* request beyond those of that one call.
C14_Stage1FailureRaises ==
    (wf_pc \in {"stage2", "returned", "raised"} /\ IsFailureString(optimized_prompt)) =>
        /\ wf_pc = "raised"
        /\ error = optimized_prompt
        /\ result = NoResult
        /\ optimized_output = <<>>
        /\ \A i \in DOMAIN wf_trace : wf_trace[i].stage = 1
        /\ Cardinality({i \in DOMAIN wf_trace : wf_trace[i].kind = "request"})
               = Count(trace, "groq_request") + Count(trace, "ollama_request")
        /\ call_pc = "done" /\ retval = optimized_prompt

\* The first call fell back to Ollama, which answered with an empty text, and
\* the workflow raised
C14_Witness ==
    /\ wf_pc = "raised"
    /\ optimized_prompt = OllamaEmptyMsg
    /\ error = OllamaEmptyMsg
    /\ HIGH_SPEED_MODE
    /\ Len(wf_trace) = 6

\* C15: the prompt of the second call is the text the first call returned, as
\* returned, with its role marker line, and not the cleaned prompt of the
\* result.
C15_Stage2SendsUncleaned ==
    (\E i \in DOMAIN wf_trace : wf_trace[i].stage = 2) =>
        /\ prompt_to_send = optimized_prompt
        /\ max_tokens = ExecMaxTokens

\* A workflow returned whose stage-1 prompt began with a role marker line: the
\* result holds the cleaned prompt, the second call was sent the other
C15_Witness ==
    /\ wf_pc = "returned"
    /\ StartsWith(optimized_prompt, RoleMarker)
    /\ chosen_role = <<"a">>
    /\ result.optimized_prompt = cleaned_prompt
    /\ result.optimized_prompt # prompt_to_send
    /\ prompt_to_send = optimized_prompt

\* C16: a Groq attempt that ends in a failure of any kind (transport error,
\* bad status, undecodable body, no content, missing or wrongly shaped field)
\* is handled the same way: the call goes to the backoff sleep of 2^attempt
\* seconds and returns nothing; after the sleep the next attempt starts if
\* this was the first, and the Ollama request is sent if it was the second,
\* whatever the kinds of the failures were.
C16_FailuresHandledAlike ==
    [][/\ (call_pc = "groq_wait" /\ IsFailureResponse(last_response')) =>
            /\ call_pc' = "sleeping"
            /\ attempt' = attempt
            /\ retval' = retval
            /\ sleeps' = Append(sleeps, 2 ^ attempt)
            /\ trace' = trace \o <<"groq_failed", "sleep">>
       /\ call_pc = "sleeping" =>
            /\ IsFailureResponse(last_response)
            /\ attempt = 0 =>
                  /\ call_pc' = "groq_wait" /\ attempt' = 1
                  /\ trace' = trace \o <<"groq_request">>
            /\ attempt = 1 =>
                  /\ call_pc' = "ollama_wait"
                  /\ trace' = BothGroqAttemptsFailed \o <<"ollama_request">>
      ]_vars

\* The second Groq attempt brought a 2xx answer without content (the first had
\* failed too), both sleeps were taken and the Ollama request is out
C16_Witness ==
    /\ call_pc = "ollama_wait"
    /\ trace = BothGroqAttemptsFailed \o <<"ollama_request">>
    /\ sleeps = <<1, 2>>
    /\ last_response.shape = "content_falsy"

\* The failure condition of the four named ones that an Ollama response falls
\* under, "other" if none
FailureCondition(r) ==
    CASE r.phase = "post_raises"                                -> "connection"
      [] r.phase = "body" /\ r.shape = "undecodable"            -> "malformed_body"
      [] r.phase = "body" /\ r.shape = "response"
            /\ Strip(r.content) = <<>>                          -> "empty_response"
      [] r.phase = "body" /\ r.shape = "no_response"            -> "missing_field"
      [] OTHER                                                  -> "other"

\* C17: the diagnostic string a call returns for one of the four failure
\* conditions (connection error, undecodable body, empty response, missing
\* completion field) is returned for no response of another of the four.
C17_DiagnosticsDistinct ==
    (/\ call_pc = "done"
     /\ Last(trace) = "ollama_failed"
     /\ FailureCondition(last_response) # "other") =>
        \A r \in OllamaResponses :
            FailureCondition(r) \notin {"other", FailureCondition(last_response)}
                => OllamaGenerate(r).value # retval

\* C19: no step changes HIGH_SPEED_MODE; and a workflow that starts, whatever
\* ran and failed before it, starts in the state a first workflow with the
\* same task starts in: nothing is left of the invocation before, and its
\* first request goes to the provider HIGH_SPEED_MODE selects.
C19_ConfigurationUnchanged ==
    [][/\ HIGH_SPEED_MODE' = HIGH_SPEED_MODE
       /\ (Quiescent /\ wf_pc' = "stage1") =>
            /\ call_pc' = (IF HIGH_SPEED_MODE THEN "groq_wait" ELSE "ollama_wait")
            /\ trace' = (IF HIGH_SPEED_MODE THEN <<"groq_request">>
                                            ELSE <<"ollama_request">>)
            /\ wf_trace' = <<Event(1, IF HIGH_SPEED_MODE THEN "groq" ELSE "ollama",
                                   "request")>>
            /\ prompt_to_send' = build_meta_instruction(abstract_task', abstract_task')
            /\ max_tokens' = MetaMaxTokens
            /\ attempt' = 0 /\ sleeps' = <<>>
            /\ retval' = <<>> /\ escaped' = "none" /\ last_response' = NoResponse
            /\ optimized_prompt' = <<>> /\ chosen_role' = <<>>
            /\ cleaned_prompt' = <<>> /\ optimized_output' = <<>>
            /\ result' = NoResult /\ error' = <<>>
      ]_vars

\* In high-speed mode a workflow has been started after one that raised: its
\* first request is with Groq, and nothing of the failed invocation is left
C19_Witness ==
    /\ prev_raised
    /\ HIGH_SPEED_MODE
    /\ wf_pc = "stage1"
    /\ call_pc = "groq_wait"
    /\ trace = <<"groq_request">>
    /\ wf_trace = <<Event(1, "groq", "request")>>
    /\ error = <<>>
    /\ result = NoResult

\* The positions of the "sleep" events of a trace, in order
RECURSIVE SleepPositions(_, _)
SleepPositions(tr, i) ==
    IF i > Len(tr) THEN <<>>
    ELSE (IF tr[i] = "sleep" THEN <<i>> ELSE <<>>) \o SleepPositions(tr, i + 1)

\* C20: in high-speed mode the Ollama request of a call comes seventh, after
\* Groq request, failure, sleep of 1 second, Groq request, failure, sleep of 2
\* seconds, in that order, and only once the second sleep is over; the return
\* follows Ollama's answer and nothing follows the return.
C20_FallbackOrder ==
    HIGH_SPEED_MODE =>
        /\ Count(trace, "ollama_request") > 0 =>
            /\ Len(trace) >= 7
            /\ SubSeq(trace, 1, 7) = BothGroqAttemptsFailed \o <<"ollama_request">>
            /\ SleepPositions(trace, 1) = <<3, 6>>
            /\ sleeps = <<1, 2>>
            /\ call_pc \in {"ollama_wait", "done"}
            /\ call_pc = "ollama_wait" => Len(trace) = 7
            /\ call_pc = "done" =>
                  /\ Len(trace) = 8
                  /\ trace[8] \in {"ollama_ok", "ollama_failed"}
        /\ call_pc = "sleeping" =>
            /\ Last(trace) = "sleep"
            /\ Count(trace, "ollama_request") = 0
        /\ (Count(trace, "groq_failed") = 2 /\ call_pc = "done") =>
            Count(trace, "ollama_request") = 1

\* The second call of a workflow went through the whole sequence and returned
\* Ollama's failure string
C20_Witness ==
    /\ HIGH_SPEED_MODE
    /\ wf_pc = "stage2"
    /\ call_pc = "done"
    /\ trace = BothGroqAttemptsFailed \o <<"ollama_request", "ollama_failed">>
    /\ sleeps = <<1, 2>>
    /\ retval = OllamaEmptyMsg

\* The trace of a call in high-speed mode whose first n Groq attempts failed
FailedAttempts(n) ==
    IF n = 0 THEN <<>>
    ELSE IF n = 1 THEN <<"groq_request", "groq_failed", "sleep">>
    ELSE BothGroqAttemptsFailed

\* The call of frame f is where a call running alone is after the responses
\* it has received itself: its trace, its sleeps and its attempt number fit
\* each other, and the value it returned is the one its last response gives
CallAlone(f, hsm) ==
    LET slept(n) == [i \in 1..n |-> 2 ^ (i - 1)] IN
    /\ f.escaped = "none"
    /\ f.attempt \in {0, 1}
    /\ IF hsm
       THEN CASE f.call_pc = "groq_wait" ->
                    /\ f.trace = FailedAttempts(f.attempt) \o <<"groq_request">>
                    /\ f.sleeps = slept(f.attempt)
              [] f.call_pc = "sleeping" ->
                    /\ f.trace = FailedAttempts(f.attempt + 1)
                    /\ f.sleeps = slept(f.attempt + 1)
                    /\ GroqAttempt(f.last_response).outcome = "retry"
              [] f.call_pc = "ollama_wait" ->
                    /\ f.attempt = 1
                    /\ f.trace = FailedAttempts(2) \o <<"ollama_request">>
                    /\ f.sleeps = slept(2)
              [] f.call_pc = "done" ->
                    \/ /\ f.trace = FailedAttempts(f.attempt)
                                        \o <<"groq_request", "groq_ok">>
                       /\ f.sleeps = slept(f.attempt)
                       /\ GroqAttempt(f.last_response).outcome = "return"
                       /\ GroqAttempt(f.last_response).value = f.retval
                    \/ /\ f.attempt = 1
                       /\ \E x \in {"ollama_ok", "ollama_failed"} :
                            f.trace = FailedAttempts(2) \o <<"ollama_request", x>>
                       /\ f.sleeps = slept(2)
                       /\ OllamaGenerate(f.last_response).value = f.retval
              [] OTHER -> FALSE
       ELSE /\ f.attempt = 0
            /\ f.sleeps = <<>>
            /\ CASE f.call_pc = "ollama_wait" -> f.trace = <<"ollama_request">>
                 [] f.call_pc = "done" ->
                    /\ \E x \in {"ollama_ok", "ollama_failed"} :
                            f.trace = <<"ollama_request", x>>
                    /\ OllamaGenerate(f.last_response).value = f.retval
                 [] OTHER -> FALSE

\* The workflow of frame f is where a workflow running alone is: what it sent,
\* returned or raised is computed from its own task and from the texts its own
\* calls returned
WorkflowAlone(f) ==
    /\ LET st == f.wf_trace[Len(f.wf_trace)].stage IN
        /\ Cardinality({i \in DOMAIN f.wf_trace :
                            f.wf_trace[i].stage = st /\ f.wf_trace[i].kind = "request"})
              = Count(f.trace, "groq_request") + Count(f.trace, "ollama_request")
        /\ st = (IF f.wf_pc = "stage1" \/ (f.wf_pc = "raised" /\ f.optimized_output = <<>>)
                 THEN 1 ELSE 2)
    /\ CASE f.wf_pc = "stage1" ->
                /\ f.prompt_to_send =
                        build_meta_instruction(f.abstract_task, f.abstract_task)
                /\ f.max_tokens = MetaMaxTokens
                /\ f.optimized_prompt = <<>>
                /\ f.result = NoResult /\ f.error = <<>>
          [] f.wf_pc = "stage2" ->
                /\ ~IsFailureString(f.optimized_prompt)
                /\ f.prompt_to_send = f.optimized_prompt
                /\ f.max_tokens = ExecMaxTokens
                /\ f.chosen_role = ChosenRole(f.optimized_prompt)
                /\ f.cleaned_prompt = CleanedPrompt(f.optimized_prompt)
                /\ f.result = NoResult /\ f.error = <<>>
          [] f.wf_pc = "returned" ->
                /\ f.call_pc = "done"
                /\ f.prompt_to_send = f.optimized_prompt
                /\ f.optimized_output = f.retval
                /\ ~IsFailureString(f.retval)
                /\ f.error = <<>>
                /\ f.result =
                        [user_task |-> f.abstract_task,
                         role_selected |-> ChosenRole(f.optimized_prompt),
                         optimized_prompt |-> CleanedPrompt(f.optimized_prompt),
                         final_output |-> ExtractFinalOutput(f.retval).final_output,
                         output_type |-> ExtractFinalOutput(f.retval).output_type]
          [] f.wf_pc = "raised" ->
                /\ f.call_pc = "done"
                /\ IsFailureString(f.retval)
                /\ f.error = f.retval
                /\ f.result = NoResult
          [] OTHER -> FALSE

\* The frames of all workflows created so far
AllFrames == {CurrentFrame} \cup {parked[i] : i \in DOMAIN parked}

\* C18: under every interleaving of the steps of the workflows on one event
\* loop, each workflow is at all times in a state it reaches when it runs
\* alone with its own task and the responses to its own requests, up to its
\* result or its error; no workflow is lost or run twice; a step of the
\* running workflow changes no frame of a suspended one, a suspended frame is
\* resumed as it was saved, and HIGH_SPEED_MODE, the state they share, is
\* never written.
C18_NoInterference ==
    /\ [](wf_pc # "idle" =>
            /\ \A f \in AllFrames : CallAlone(f, HIGH_SPEED_MODE) /\ WorkflowAlone(f)
            /\ {f.abstract_task : f \in AllFrames}
                  = {ConcTask(n) : n \in 1..(Len(parked) + 1)})
    /\ [][/\ HIGH_SPEED_MODE' = HIGH_SPEED_MODE
           /\ \/ parked' = parked
              \/ parked' = Append(parked, CurrentFrame)
              \/ \E i \in DOMAIN parked :
                    /\ CurrentFrame' = parked[i]
                    /\ parked' = [parked EXCEPT ![i] = CurrentFrame]
          ]_vars

\* The workflow created second has run both its stages and returned while the
\* one created first is still suspended in its first call, at the second Groq
\* attempt
C18_Witness ==
    /\ HIGH_SPEED_MODE
    /\ Len(parked) = 1
    /\ abstract_task = ConcTask(2)
    /\ wf_pc = "returned"
    /\ result.final_output = <<"a">>
    /\ parked[1].abstract_task = ConcTask(1)
    /\ parked[1].wf_pc = "stage1"
    /\ parked[1].call_pc = "groq_wait"
    /\ parked[1].attempt = 1

====
